---- MODULE Spec2Model ----
(***************************************************************************)
(* Service marketplace: the service-request lifecycle (create, generic     *)
(* PATCH update used for accept / start / complete), and the Stripe        *)
(* payment path (create-intent, confirm), as implemented by the Express    *)
(* routes and the DbStorage gateway.                                       *)
(*                                                                         *)
(* Rows are kept in sequences; a row's id is its index and its createdAt   *)
(* is its insertion order.  updatedAt is not modelled.                     *)
(***************************************************************************)
EXTENDS Integers, Sequences, FiniteSets, TLC

VARIABLES
    userType,   \* users.user_type of every signed-up user
    requests,   \* service_requests table
    payments,   \* payments table
    intents,    \* the processor's payment intents (Stripe side)
    inflight,   \* handlers suspended at an await, with what they have read
    last        \* the last event: the response of the handler that finished last

vars == <<userType, requests, payments, intents, inflight, last>>

----------------------------------------------------------------------------
(* Bounds of the model *)

MaxRequests == 1
MaxPayments == 3
MaxInFlight == 2
MaxListed == 2

----------------------------------------------------------------------------
(* Values *)

NULL == "null"
Users == {"c1", "t1", "t2"}
UserTypes == {"client", "technician"}
Statuses == {"pending", "accepted", "in_progress", "completed", "cancelled"}
\* the status column is free text: any string a body carries is stored
StatusInputs == Statuses \cup {"bogus"}
\* a nullable integer column: <<>> is SQL NULL, <<n>> the integer n
NoPrice == <<>>
PriceInputs == {NoPrice, <<0>>, <<-5>>, <<120>>}

\* service types are free text, compared as they are written
ServiceTypes == {"Plumber", "Electrician", "plumber"}
\* users.skills, any array PATCH /api/user/profile stored
SkillSets == SUBSET {"Plumber", "Electrician"}

NoResponse == [op |-> "none"]

----------------------------------------------------------------------------
(* DbStorage: service requests *)

Exists(id) == id \in DOMAIN requests

\* updates spread over the stored row; only known columns are written
Merge(row, updates) ==
    [f \in DOMAIN row |-> IF f \in DOMAIN updates THEN updates[f] ELSE row[f]]

updateServiceRequest(rows, id, updates) ==
    [i \in DOMAIN rows |-> IF i = id THEN Merge(rows[i], updates) ELSE rows[i]]

createServiceRequest(rows, row) == Append(rows, row)

\* weakened IsAvailable: the technician column is not looked at
IsAvailable_PendingOnly(request) == request.status = "pending"

\* where status = 'pending' and technician_id is null
IsAvailable(request) ==
    request.status = "pending" /\ request.technicianId = NULL

\* order by created_at desc: rows are stored in insertion order, so the
\* newest row has the greatest id
RECURSIVE NewestFirst(_)
NewestFirst(ids) ==
    IF ids = {} THEN <<>>
    ELSE LET newest == CHOOSE i \in ids : \A j \in ids : j <= i
         IN <<newest>> \o NewestFirst(ids \ {newest})

\* skills.includes(req.serviceType)
HasSkill(skills, id) == requests[id].serviceType \in skills

\* weakened getAvailableServiceRequests: the skills are not looked at
getAvailableServiceRequests_Unfiltered(skills) ==
    NewestFirst({id \in DOMAIN requests : IsAvailable(requests[id])})

\* the ids of the rows returned, in the order returned
getAvailableServiceRequests(skills) ==
    LET results == NewestFirst({id \in DOMAIN requests : IsAvailable(requests[id])})
    IN IF skills # {}
       THEN SelectSeq(results, LAMBDA id : HasSkill(skills, id))
       ELSE results

----------------------------------------------------------------------------
(* PATCH /api/user/profile *)

UpdateProfile(userId, ut) ==
    /\ userType[userId] # ut
    /\ userType' = [userType EXCEPT ![userId] = ut]
    /\ last' = [op |-> "profile", caller |-> userId, code |-> 200]
    /\ UNCHANGED <<requests, payments, intents, inflight>>

----------------------------------------------------------------------------
(* POST /api/service-requests *)

Field(body, f, default) == IF f \in DOMAIN body THEN body[f] ELSE default

\* insertServiceRequestSchema.parse({...req.body, clientId: userId})
ParsedRequest(userId, body) ==
    [clientId        |-> userId,
     technicianId    |-> Field(body, "technicianId", NULL),
     serviceType     |-> body.serviceType,
     status          |-> Field(body, "status", "pending"),
     quotedPrice     |-> Field(body, "quotedPrice", NoPrice),
     technicianNotes |-> Field(body, "technicianNotes", NULL)]

CreateServiceRequest(userId, body) ==
    /\ Len(requests) < MaxRequests
    /\ IF "serviceType" \notin DOMAIN body
       THEN /\ last' = [op |-> "create", caller |-> userId, code |-> 400]
            /\ UNCHANGED requests
       ELSE /\ requests' = createServiceRequest(requests, ParsedRequest(userId, body))
            /\ last' = [op |-> "create", caller |-> userId, code |-> 200]
    /\ UNCHANGED <<userType, payments, intents, inflight>>

----------------------------------------------------------------------------
(* POST /api/technician/jobs *)

CreateTechnicianJob(userId, body) ==
    /\ Len(requests) < MaxRequests
    /\ IF userType[userId] # "technician"
       THEN /\ last' = [op |-> "job", caller |-> userId, code |-> 403]
            /\ UNCHANGED requests
       ELSE IF "serviceType" \notin DOMAIN body
       THEN /\ last' = [op |-> "job", caller |-> userId, code |-> 400]
            /\ UNCHANGED requests
       ELSE /\ requests' = createServiceRequest(requests,
                              [clientId        |-> userId,
                               technicianId    |-> userId,
                               serviceType     |-> body.serviceType,
                               status          |-> "pending",
                               quotedPrice     |-> NoPrice,
                               technicianNotes |-> NULL])
            /\ last' = [op |-> "job", caller |-> userId, code |-> 200]
    /\ UNCHANGED <<userType, payments, intents, inflight>>

----------------------------------------------------------------------------
(* GET /api/service-requests/available; skills is the caller's users.skills *)

ListAvailable(userId, skills) ==
    /\ IF userType[userId] # "technician"
       THEN last' = [op |-> "available", caller |-> userId, code |-> 403,
                     skills |-> skills, rows |-> <<>>]
       ELSE last' = [op |-> "available", caller |-> userId, code |-> 200,
                     skills |-> skills,
                     rows |-> getAvailableServiceRequests(skills)]
    /\ UNCHANGED <<userType, requests, payments, intents, inflight>>

\* the technician dashboard filters the answer by the skills once more
skillFiltered(availableJobs, skills) ==
    SelectSeq(availableJobs, LAMBDA id : skills = {} \/ HasSkill(skills, id))

----------------------------------------------------------------------------
(* PATCH /api/service-requests/:id *)

\* weakened PatchCode: the caller is not compared with the row
PatchCode_Open(found, request, userId) == IF ~found THEN 404 ELSE 200

\* weakened PatchForbidden: every technician may update every request
PatchForbidden_AnyTechnician(request, userId) ==
    /\ request.clientId # userId
    /\ request.technicianId # userId
    /\ userType[userId] # "technician"

\* "Only client who created it or assigned technician can update"
PatchForbidden(request, userId) ==
    request.clientId # userId /\ request.technicianId # userId

\* the status the handler answers with, from the row it read (every caller
\* is a signed-up user, so getUser finds a row)
PatchCode(found, request, userId) ==
    IF ~found THEN 404
    ELSE IF PatchForbidden(request, userId) THEN 403
    ELSE 200

\* which button of the request page sends this body
BodyKind(userId, updates) ==
    IF updates = [technicianId |-> userId, status |-> "accepted"] THEN "accept"
    ELSE IF DOMAIN updates = {"status", "quotedPrice", "technicianNotes"}
            /\ updates.status = "completed" THEN "complete"
    ELSE IF DOMAIN updates = {"status"} THEN "status"
    ELSE "other"

PatchServiceRequest(userId, id, updates) ==
    /\ LET found == Exists(id)
           code == IF found THEN PatchCode(TRUE, requests[id], userId)
                   ELSE 404
       IN /\ requests' = IF code = 200
                         THEN updateServiceRequest(requests, id, updates)
                         ELSE requests
          /\ last' = [op |-> "patch", caller |-> userId, id |-> id,
                      kind |-> BodyKind(userId, updates), code |-> code]
    /\ UNCHANGED <<userType, payments, intents, inflight>>

----------------------------------------------------------------------------
(* PATCH /api/service-requests/:id, one await at a time.  The handler reads *)
(* the row, suspends, and later decides on what it read and writes.         *)

Idle == [pc |-> "idle"]

PatchRead(h, userId, id, updates) ==
    /\ inflight[h] = Idle
    /\ inflight' = [inflight EXCEPT ![h] =
                      [pc |-> "read", op |-> "patch", caller |-> userId, id |-> id,
                       updates |-> updates, found |-> Exists(id),
                       request |-> IF Exists(id) THEN requests[id] ELSE Idle]]
    /\ UNCHANGED <<userType, requests, payments, intents, last>>

PatchWrite(h) ==
    /\ inflight[h].pc = "read"
    /\ inflight[h].op = "patch"
    /\ LET c == inflight[h]
           code == PatchCode(c.found, c.request, c.caller)
       IN /\ requests' = IF code = 200
                         THEN updateServiceRequest(requests, c.id, c.updates)
                         ELSE requests
          /\ inflight' = [inflight EXCEPT ![h] =
                            [pc |-> "done", op |-> "patch", caller |-> c.caller,
                             id |-> c.id, updates |-> c.updates,
                             found |-> c.found, request |-> c.request,
                             code |-> code]]
    /\ UNCHANGED <<userType, payments, intents, last>>

\* res.json(...) reaches the page; the handler is gone
Respond(h) ==
    /\ inflight[h].pc = "done"
    /\ last' = [op |-> "patch", caller |-> inflight[h].caller, id |-> inflight[h].id,
                kind |-> BodyKind(inflight[h].caller, inflight[h].updates),
                code |-> inflight[h].code]
    /\ inflight' = [inflight EXCEPT ![h] = Idle]
    /\ UNCHANGED <<userType, requests, payments, intents>>

----------------------------------------------------------------------------
(* DbStorage: payments *)

PaymentsOf(serviceRequestId) ==
    {i \in DOMAIN payments : payments[i].serviceRequestId = serviceRequestId}

\* select ... where service_request_id = $1 limit 1, with no ORDER BY: any
\* one of the request's rows; 0 stands for undefined (no row)
getPaymentByServiceRequest(serviceRequestId) ==
    IF PaymentsOf(serviceRequestId) = {} THEN {0} ELSE PaymentsOf(serviceRequestId)

\* weakened updatePaymentStatus: a row that is succeeded already is reset
updatePaymentStatus_Reset(rows, id, status) ==
    [i \in DOMAIN rows |->
        IF i = id
        THEN [rows[i] EXCEPT !.status = IF rows[i].status = status
                                        THEN "pending" ELSE status]
        ELSE rows[i]]

\* update payments set status = $2 where id = $1: no row, no change
updatePaymentStatus(rows, id, status) ==
    [i \in DOMAIN rows |-> IF i = id THEN [rows[i] EXCEPT !.status = status]
                           ELSE rows[i]]

createPayment(rows, row) == Append(rows, row)

----------------------------------------------------------------------------
(* POST /api/payments/create-intent *)

\* weakened NoQuotedPrice: only a missing price is refused
NoQuotedPrice_NullOnly(request) == request.quotedPrice = NoPrice

\* !request.quotedPrice
NoQuotedPrice(request) ==
    request.quotedPrice = NoPrice \/ request.quotedPrice[1] = 0

\* weakened IntentCheck: the status of the request is not looked at
IntentCheck_NoStatus(found, request, existing) ==
    IF ~found THEN "not_found"
    ELSE IF NoQuotedPrice(request) THEN "no_price"
    ELSE IF existing # 0 /\ payments[existing].status = "succeeded" THEN "already_paid"
    ELSE "proceed"

\* the checks before the processor is called; existing is the row
\* getPaymentByServiceRequest returned (0: none)
IntentCheck(found, request, existing) ==
    IF ~found THEN "not_found"
    ELSE IF request.status # "completed" THEN "not_completed"
    ELSE IF NoQuotedPrice(request) THEN "no_price"
    ELSE IF existing # 0 /\ payments[existing].status = "succeeded" THEN "already_paid"
    ELSE "proceed"

\* weakened Cents: the price is sent as it is stored
Cents_Dollars(request) == request.quotedPrice[1]

\* amount: request.quotedPrice * 100  (convert to cents)
Cents(request) == request.quotedPrice[1] * 100

\* stripe.paymentIntents.create rejects an amount that is not positive
StripeAccepts(amount) == amount > 0

IntentFailure(userId, id, code, msg) ==
    /\ last' = [op |-> "intent", caller |-> userId, id |-> id, code |-> code, msg |-> msg]
    /\ UNCHANGED <<payments, intents>>

CreateIntent(userId, serviceRequestId, existing, stripeUp, insertOk) ==
    /\ existing \in getPaymentByServiceRequest(serviceRequestId)
    /\ LET found == Exists(serviceRequestId)
           request == IF found THEN requests[serviceRequestId] ELSE [status |-> NULL]
           check == IntentCheck(found, request, existing)
       IN IF check = "not_found"
          THEN IntentFailure(userId, serviceRequestId, 404, check)
          ELSE IF check # "proceed"
          THEN IntentFailure(userId, serviceRequestId, 400, check)
          ELSE IF ~stripeUp \/ ~StripeAccepts(Cents(request))
          THEN IntentFailure(userId, serviceRequestId, 500, "failed")
          ELSE /\ Len(intents) < MaxPayments
               /\ intents' = Append(intents, [amount |-> Cents(request),
                                              serviceRequestId |-> serviceRequestId,
                                              status |-> "requires_payment_method"])
               /\ IF insertOk
                  THEN /\ payments' = createPayment(payments,
                              [serviceRequestId      |-> serviceRequestId,
                               amount                |-> request.quotedPrice[1],
                               stripePaymentIntentId |-> Len(intents) + 1,
                               status                |-> "pending"])
                       /\ last' = [op |-> "intent", caller |-> userId,
                                   id |-> serviceRequestId, code |-> 200, msg |-> "ok"]
                  ELSE /\ last' = [op |-> "intent", caller |-> userId,
                                   id |-> serviceRequestId, code |-> 500, msg |-> "failed"]
                       /\ UNCHANGED payments
    /\ UNCHANGED <<userType, requests, inflight>>

----------------------------------------------------------------------------
(* GET /api/payments/:serviceRequestId; existing is the row the lookup *)
(* returned (0: none, answered as an empty body)                      *)

GetPayment(userId, serviceRequestId, existing) ==
    /\ existing \in getPaymentByServiceRequest(serviceRequestId)
    /\ last' = [op |-> "payment", caller |-> userId, id |-> serviceRequestId,
                code |-> 200, row |-> existing]
    /\ UNCHANGED <<userType, requests, payments, intents, inflight>>

----------------------------------------------------------------------------
(* The payer completes the intent on the processor's form *)
(* (stripe.confirmPayment in PaymentForm)                  *)

StripePay(i) ==
    /\ i \in DOMAIN intents
    /\ intents[i].status # "succeeded"
    /\ intents' = [intents EXCEPT ![i].status = "succeeded"]
    /\ last' = [op |-> "pay", intent |-> i]
    /\ UNCHANGED <<userType, requests, payments, inflight>>

----------------------------------------------------------------------------
(* POST /api/payments/confirm *)

\* weakened ConfirmPayment: the status the processor reports is not looked at
ConfirmPayment_Trusting(paymentId, paymentIntentId) ==
    /\ IF paymentIntentId \notin DOMAIN intents
       THEN /\ last' = [op |-> "confirm", paymentId |-> paymentId,
                        intent |-> paymentIntentId, code |-> 500, success |-> FALSE]
            /\ UNCHANGED payments
       ELSE /\ payments' = updatePaymentStatus(payments, paymentId, "succeeded")
            /\ last' = [op |-> "confirm", paymentId |-> paymentId,
                        intent |-> paymentIntentId, code |-> 200, success |-> TRUE]
    /\ UNCHANGED <<userType, requests, intents, inflight>>

ConfirmPayment(paymentId, paymentIntentId) ==
    /\ IF paymentIntentId \notin DOMAIN intents
       THEN \* stripe.paymentIntents.retrieve throws: no such intent
            /\ last' = [op |-> "confirm", paymentId |-> paymentId,
                        intent |-> paymentIntentId, code |-> 500, success |-> FALSE]
            /\ UNCHANGED payments
       ELSE IF intents[paymentIntentId].status = "succeeded"
       THEN /\ payments' = updatePaymentStatus(payments, paymentId, "succeeded")
            /\ last' = [op |-> "confirm", paymentId |-> paymentId,
                        intent |-> paymentIntentId, code |-> 200, success |-> TRUE]
       ELSE /\ last' = [op |-> "confirm", paymentId |-> paymentId,
                        intent |-> paymentIntentId, code |-> 200, success |-> FALSE]
            /\ UNCHANGED payments
    /\ UNCHANGED <<userType, requests, intents, inflight>>

----------------------------------------------------------------------------
(* Request bodies *)

AcceptBody(userId) == [technicianId |-> userId, status |-> "accepted"]
StatusBody(s) == [status |-> s]
CompleteBody(p, n) == [status |-> "completed", quotedPrice |-> p, technicianNotes |-> n]
PlainRequest == [serviceType |-> "Plumber"]

PatchBodies ==
    {AcceptBody(u) : u \in Users}
    \cup {StatusBody(s) : s \in StatusInputs}
    \cup {CompleteBody(p, "Fixed leak") : p \in PriceInputs}
    \cup {CompleteBody(<<120>>, "")}
    \cup {[clientId |-> u] : u \in Users}
    \cup {[technicianId |-> u] : u \in Users \cup {NULL}}

CreateBodies ==
    {PlainRequest, [description |-> "no service type"]}
    \cup {[serviceType |-> "Plumber", status |-> s] : s \in {"accepted", "bogus"}}
    \cup {[serviceType |-> "Plumber", technicianId |-> u] : u \in Users}
    \cup {[serviceType |-> "Plumber", quotedPrice |-> <<120>>]}

\* the bodies that touch what the ownership check reads
OwnershipBodies ==
    {AcceptBody(u) : u \in Users}
    \cup {StatusBody(s) : s \in {"pending", "completed"}}
    \cup {[clientId |-> u] : u \in Users}
    \cup {[technicianId |-> u] : u \in Users \cup {NULL}}

OwnershipCreateBodies ==
    {PlainRequest} \cup {[serviceType |-> "Plumber", technicianId |-> u] : u \in Users}

\* the onboarding page: every user picks a role once
Onboarding == {<<"c1", "client">>, <<"t1", "technician">>, <<"t2", "technician">>}

\* what the owner sends on the way to a payable request
PayBodies ==
    {StatusBody("cancelled")}
    \cup {CompleteBody(p, "Fixed leak") : p \in PriceInputs}

\* the request's owner and somebody else
PayCallers == {"c1", "t1"}

\* what the owner sends to hand a request out and take it back
ListingBodies ==
    {AcceptBody("t1"), StatusBody("pending"), StatusBody("cancelled"),
     [technicianId |-> NULL]}

\* the rows the create routes store for owner c1
ListedRows ==
    [clientId : {"c1"}, technicianId : {NULL, "t1"}, serviceType : ServiceTypes,
     status : {"pending", "accepted"}, quotedPrice : {NoPrice},
     technicianNotes : {NULL}]

RECURSIVE SeqsUpTo(_, _)
SeqsUpTo(S, n) ==
    IF n = 0 THEN {<<>>}
    ELSE LET shorter == SeqsUpTo(S, n - 1)
         IN shorter \cup {Append(q, x) : q \in shorter, x \in S}

ReqIds == 1 .. (MaxRequests + 1)
PayIds == 1 .. (MaxPayments + 1)
Handlers == 1 .. MaxInFlight

----------------------------------------------------------------------------

Init ==
    /\ userType = [u \in Users |-> NULL]
    /\ requests = <<>>
    /\ payments = <<>>
    /\ intents = <<>>
    /\ inflight = [h \in Handlers |-> Idle]
    /\ last = NoResponse

\* the request lifecycle, every handler run to its end before the next starts
Next ==
    \/ \E u \in Users, ut \in UserTypes : UpdateProfile(u, ut)
    \/ \E u \in Users, b \in CreateBodies : CreateServiceRequest(u, b)
    \/ \E u \in Users, b \in CreateBodies : CreateTechnicianJob(u, b)
    \/ \E u \in Users, id \in ReqIds, b \in PatchBodies : PatchServiceRequest(u, id, b)

Spec == Init /\ [][Next]_vars

\* the ownership check of PATCH under every body that moves an owner field
NextAccess ==
    \/ \E p \in Onboarding : UpdateProfile(p[1], p[2])
    \/ \E u \in Users, b \in OwnershipCreateBodies : CreateServiceRequest(u, b)
    \/ \E u \in Users, id \in 1 .. MaxRequests, b \in OwnershipBodies :
            PatchServiceRequest(u, id, b)

SpecAccess == Init /\ [][NextAccess]_vars

\* the payment path over a request its owner drives to completion
NextPay ==
    \/ requests = <<>> /\ CreateServiceRequest("c1", PlainRequest)
    \/ \E b \in PayBodies : PatchServiceRequest("c1", 1, b)
    \/ \E u \in PayCallers, e \in 0 .. MaxPayments, up \in BOOLEAN, ok \in BOOLEAN :
            CreateIntent(u, 1, e, up, ok)
    \/ \E e \in 0 .. MaxPayments : GetPayment("c1", 1, e)
    \/ \E i \in 1 .. MaxPayments : StripePay(i)
    \/ \E p \in PayIds, i \in PayIds : ConfirmPayment(p, i)

SpecPay == Init /\ [][NextPay]_vars

\* accept requests of the request page, interleaved at their awaits
NextRace ==
    \/ \E p \in Onboarding : UpdateProfile(p[1], p[2])
    \/ \E u \in Users, b \in OwnershipCreateBodies : CreateServiceRequest(u, b)
    \/ \E h \in Handlers, u \in Users, id \in 1 .. MaxRequests :
            PatchRead(h, u, id, AcceptBody(u))
    \/ \E h \in Handlers : PatchWrite(h)
    \/ \E h \in Handlers : Respond(h)

SpecRace == Init /\ [][NextRace]_vars

\* the availability listing over every store of up to MaxListed requests
InitListing ==
    /\ userType = [u \in Users |-> IF u = "c1" THEN "client" ELSE "technician"]
    /\ requests \in SeqsUpTo(ListedRows, MaxListed)
    /\ payments = <<>>
    /\ intents = <<>>
    /\ inflight = [h \in Handlers |-> Idle]
    /\ last = NoResponse

NextListing ==
    \/ \E u \in Users, S \in SkillSets : ListAvailable(u, S)
    \/ \E id \in 1 .. MaxListed, b \in ListingBodies : PatchServiceRequest("c1", id, b)

SpecListing == InitListing /\ [][NextListing]_vars

----------------------------------------------------------------------------
(* Claims *)

\* a finished accept of request id by technician u that had read it pending
AcceptDone(h, id) ==
    /\ inflight[h].pc = "done"
    /\ inflight[h].id = id
    /\ BodyKind(inflight[h].caller, inflight[h].updates) = "accept"
    /\ userType[inflight[h].caller] = "technician"
    /\ inflight[h].found
    /\ inflight[h].request.status = "pending"

\* C1: of two distinct technicians whose accept handlers both read the same
\* request while it was pending, exactly one is answered with success, the
\* other with a failure, and the request's technicianId is the winner's id.
C1_ExactlyOneAcceptWins ==
    \A h1, h2 \in Handlers, id \in DOMAIN requests :
        (/\ h1 # h2
         /\ AcceptDone(h1, id)
         /\ AcceptDone(h2, id)
         /\ inflight[h1].caller # inflight[h2].caller)
        => \/ /\ inflight[h1].code = 200
              /\ inflight[h2].code # 200
              /\ requests[id].technicianId = inflight[h1].caller
           \/ /\ inflight[h2].code = 200
              /\ inflight[h1].code # 200
              /\ requests[id].technicianId = inflight[h2].caller

\* C2: every request has at most one payment row in status succeeded.
C2_AtMostOneSucceeded ==
    \A r \in 1 .. MaxRequests :
        Cardinality({i \in PaymentsOf(r) : payments[i].status = "succeeded"}) <= 1

\* C3: a request in status completed or cancelled keeps that status in
\* every step.
C3_TerminalStatusKept ==
    [][\A id \in DOMAIN requests :
          requests[id].status \in {"completed", "cancelled"}
          => requests'[id].status = requests[id].status]_vars

\* C4: a request has a technicianId exactly when its status is neither
\* pending nor cancelled.
C4_TechnicianIffTaken ==
    \A id \in DOMAIN requests :
        (requests[id].technicianId # NULL)
        <=> (requests[id].status \notin {"pending", "cancelled"})

\* C5: an accept by a technician who is not the owner, on a pending request
\* without technician, succeeds and leaves the request accepted and bound to
\* the caller.
C5_AcceptSucceeds ==
    [][(/\ last'.op = "patch"
        /\ last'.kind = "accept"
        /\ Exists(last'.id)
        /\ requests[last'.id].status = "pending"
        /\ requests[last'.id].technicianId = NULL
        /\ requests[last'.id].clientId # last'.caller
        /\ userType[last'.caller] = "technician")
       => /\ last'.code = 200
          /\ requests'[last'.id].status = "accepted"
          /\ requests'[last'.id].technicianId = last'.caller]_vars

\* C6: a step that takes a request from pending to accepted is a PATCH by a
\* caller of role technician, and binds the request to that caller.
C6_OnlyTechnicianAccepts ==
    [][\A id \in DOMAIN requests :
          (requests[id].status = "pending" /\ requests'[id].status = "accepted")
          => /\ last'.op = "patch"
             /\ userType[last'.caller] = "technician"
             /\ requests'[id].technicianId = last'.caller]_vars

\* a PATCH with the accept body, by a caller who is neither the owner nor the
\* technician of the request, which is bound to somebody
AcceptByStranger ==
    /\ last'.op = "patch"
    /\ last'.kind = "accept"
    /\ Exists(last'.id)
    /\ requests[last'.id].technicianId \notin {NULL, last'.caller}
    /\ requests[last'.id].clientId # last'.caller

C8_CompletionNeedsPriceAndSummary ==
    [][\A id \in DOMAIN requests :
          (requests[id].status = "in_progress" /\ requests'[id].status = "completed")
          => /\ requests'[id].quotedPrice # NoPrice
             /\ requests'[id].quotedPrice[1] > 0
             /\ requests'[id].technicianNotes \notin {NULL, ""}]_vars

\* C9: while a payment of the request has succeeded, create-intent for it
\* (the request completed and priced, the processor and the store up) is
\* answered with the already-paid error and adds no intent and no payment.
C9_PaidRequestRefused ==
    [][(/\ last'.op = "intent"
        /\ last'.msg # "failed"
        /\ Exists(last'.id)
        /\ requests[last'.id].status = "completed"
        /\ ~NoQuotedPrice(requests[last'.id])
        /\ \E i \in PaymentsOf(last'.id) : payments[i].status = "succeeded")
       => /\ last'.code = 400
          /\ last'.msg = "already_paid"
          /\ UNCHANGED <<payments, intents>>]_vars

\* C10: create-intent for a request that is not completed is answered 400
\* and adds no intent and no payment.
C10_UncompletedRefused ==
    [][(/\ last'.op = "intent"
        /\ Exists(last'.id)
        /\ requests[last'.id].status # "completed")
       => /\ last'.code = 400
          /\ last'.msg = "not_completed"
          /\ UNCHANGED <<payments, intents>>]_vars

\* C10 witness: create-intent was refused for a cancelled request that
\* carries a price, while a payment of an earlier intent exists.
C10_Witness ==
    /\ last.op = "intent"
    /\ last.code = 400
    /\ last.msg = "not_completed"
    /\ requests[last.id].status = "cancelled"
    /\ requests[last.id].quotedPrice = <<120>>
    /\ PaymentsOf(last.id) # {}

C12_ConfirmFollowsProcessor ==
    [][(last'.op = "confirm" /\ last'.intent \in DOMAIN intents)
       => IF intents[last'.intent].status = "succeeded"
          THEN /\ last'.code = 200
               /\ last'.success
               /\ DOMAIN payments' = DOMAIN payments
               /\ \A i \in DOMAIN payments :
                       payments'[i] = IF i = last'.paymentId
                                      THEN [payments[i] EXCEPT !.status = "succeeded"]
                                      ELSE payments[i]
          ELSE /\ last'.code = 200
               /\ ~last'.success
               /\ payments' = payments]_vars

\* C12 witness: a confirm of a pending payment whose intent is not paid yet
\* was answered success false, and the row is still pending.
C12_Witness ==
    /\ last.op = "confirm"
    /\ last.code = 200
    /\ ~last.success
    /\ last.paymentId \in DOMAIN payments
    /\ payments[last.paymentId].status = "pending"
    /\ payments[last.paymentId].stripePaymentIntentId = last.intent
    /\ intents[last.intent].status = "requires_payment_method"

\* C13: every request has at most one payment row and at most one intent at
\* the processor.
C13_OneIntentPerRequest ==
    \A r \in 1 .. MaxRequests :
        /\ Cardinality(PaymentsOf(r)) <= 1
        /\ Cardinality({i \in DOMAIN intents : intents[i].serviceRequestId = r}) <= 1

C15_ListedAreOpen ==
    [][(last'.op = "available" /\ last'.code = 200)
       => \A k \in DOMAIN last'.rows :
              /\ requests[last'.rows[k]].status = "pending"
              /\ requests[last'.rows[k]].technicianId = NULL]_vars

\* C15 witness: a listing for no skills returned one row and left out a
\* pending request that carries a technician.
C15_Witness ==
    /\ last.op = "available"
    /\ last.code = 200
    /\ last.skills = {}
    /\ Len(last.rows) = 1
    /\ \E id \in DOMAIN requests :
           /\ requests[id].status = "pending"
           /\ requests[id].technicianId # NULL
           /\ id # last.rows[1]

\* C16: the listing for skill set S holds exactly the pending requests
\* without technician whose serviceType is in S as written (all of them when
\* S is empty), each once, newest first; the dashboard's filter keeps all.
C16_ListingIsExact ==
    [][(last'.op = "available" /\ last'.code = 200)
       => LET rows == last'.rows
              S == last'.skills
          IN /\ {rows[k] : k \in DOMAIN rows}
                  = {id \in DOMAIN requests :
                        /\ requests[id].status = "pending"
                        /\ requests[id].technicianId = NULL
                        /\ (S = {} \/ requests[id].serviceType \in S)}
             /\ \A j, k \in DOMAIN rows : j < k => rows[j] > rows[k]
             /\ skillFiltered(rows, S) = rows]_vars

\* C16 witness: with a pending "Plumber" request and a newer pending
\* "plumber" request in the store, the listing for skills {"Plumber"}
\* returned the first only.
C16_Witness ==
    /\ last.op = "available"
    /\ last.code = 200
    /\ last.skills = {"Plumber"}
    /\ Len(requests) >= 2
    /\ IsAvailable(requests[1]) /\ requests[1].serviceType = "Plumber"
    /\ IsAvailable(requests[2]) /\ requests[2].serviceType = "plumber"
    /\ last.rows = <<1>>

\* C17: every step that changes the status of a request takes it from
\* pending to accepted, accepted to in_progress, in_progress to completed
\* or pending to cancelled.
C17_StatusFollowsEdges ==
    [][\A id \in DOMAIN requests :
          requests'[id].status # requests[id].status
          => <<requests[id].status, requests'[id].status>>
                \in {<<"pending", "accepted">>, <<"accepted", "in_progress">>,
                     <<"in_progress", "completed">>, <<"pending", "cancelled">>}]_vars

\* C18: a step that takes a request from accepted to in_progress or from
\* in_progress to completed is a PATCH by the request's technicianId.
C18_TechnicianDrivesWork ==
    [][\A id \in DOMAIN requests :
          (\/ /\ requests[id].status = "accepted"
              /\ requests'[id].status = "in_progress"
           \/ /\ requests[id].status = "in_progress"
              /\ requests'[id].status = "completed")
          => /\ last'.op = "patch"
             /\ last'.caller = requests[id].technicianId]_vars

\* C19: no step changes the clientId of a stored request.
C19_ClientIdFixed ==
    [][\A id \in DOMAIN requests :
          requests'[id].clientId = requests[id].clientId]_vars

\* C20: a request that carries a quotedPrice has status completed.
C20_PriceOnlyWhenCompleted ==
    \A id \in DOMAIN requests :
        requests[id].quotedPrice # NoPrice => requests[id].status = "completed"

\* C21: a step that changes the technicianId of a request takes the request
\* from pending to accepted.
C21_OnlyAcceptBinds ==
    [][\A id \in DOMAIN requests :
          requests'[id].technicianId # requests[id].technicianId
          => /\ requests[id].status = "pending"
             /\ requests'[id].status = "accepted"]_vars

\* C22: the status of every stored request is one of pending, accepted,
\* in_progress, completed, cancelled.
C22_StatusInEnum ==
    \A id \in DOMAIN requests : requests[id].status \in Statuses

\* C23: a request stored by POST /api/service-requests is pending, has no
\* technician and no quotedPrice, and its clientId is the caller.
C23_CreatedRequestIsFresh ==
    [][(last'.op = "create" /\ last'.code = 200)
       => LET row == requests'[Len(requests')]
          IN /\ Len(requests') = Len(requests) + 1
             /\ row.status = "pending"
             /\ row.technicianId = NULL
             /\ row.quotedPrice = NoPrice
             /\ row.clientId = last'.caller]_vars

\* C24: a create-intent answered 200 adds one intent and one payment row;
\* the row is pending, names the intent just created and carries the
\* request's quotedPrice, and the intent's amount is 100 times that price.
C24_PaymentRowMatchesIntent ==
    [][(last'.op = "intent" /\ last'.code = 200)
       => LET price == requests[last'.id].quotedPrice[1]
              row == payments'[Len(payments')]
          IN /\ Len(payments') = Len(payments) + 1
             /\ Len(intents') = Len(intents) + 1
             /\ row.status = "pending"
             /\ row.serviceRequestId = last'.id
             /\ row.stripePaymentIntentId = Len(intents')
             /\ row.amount = price
             /\ intents'[Len(intents')].amount = 100 * price]_vars

\* C24 witness: create-intent for a request priced 120 was answered 200;
\* the newest payment row carries 120 and its intent 12000.
C24_Witness ==
    /\ last.op = "intent"
    /\ last.code = 200
    /\ requests[last.id].quotedPrice = <<120>>
    /\ payments[Len(payments)].amount = 120
    /\ payments[Len(payments)].status = "pending"
    /\ intents[payments[Len(payments)].stripePaymentIntentId].amount = 12000

\* C25: create-intent by a caller who is not the clientId of the request
\* (the processor and the store up) is not answered 200 and adds no intent
\* and no payment.
C25_OnlyOwnerPays ==
    [][(/\ last'.op = "intent"
        /\ last'.msg # "failed"
        /\ Exists(last'.id)
        /\ requests[last'.id].clientId # last'.caller)
       => /\ last'.code # 200
          /\ UNCHANGED <<payments, intents>>]_vars

\* C26: a step that turns a payment row to succeeded is a confirm that named
\* the row's own stored intent, and the processor reports that intent
\* succeeded.
C26_ConfirmChecksOwnIntent ==
    [][\A p \in DOMAIN payments :
          (payments[p].status # "succeeded" /\ payments'[p].status = "succeeded")
          => /\ last'.op = "confirm"
             /\ last'.intent = payments[p].stripePaymentIntentId
             /\ intents[payments[p].stripePaymentIntentId].status = "succeeded"]_vars

\* C27: a confirm that answers success names a payment row that exists and
\* is succeeded afterwards.
C27_SuccessMeansRow ==
    [][(last'.op = "confirm" /\ last'.success)
       => /\ last'.paymentId \in DOMAIN payments'
          /\ payments'[last'.paymentId].status = "succeeded"]_vars

\* C28: when a payment of the request is succeeded, the payment lookup for
\* the request answers with a succeeded row.
C28_LookupFindsSucceeded ==
    [][(/\ last'.op = "payment"
        /\ \E i \in PaymentsOf(last'.id) : payments[i].status = "succeeded")
       => /\ last'.row # 0
          /\ payments[last'.row].status = "succeeded"]_vars

\* C29: a new payment row is pending; the only change of a row's status is
\* from pending to succeeded; no row is ever failed and no row is removed.
C29_PaymentStatusMonotonic ==
    [][/\ Len(payments') >= Len(payments)
       /\ \A i \in DOMAIN payments' :
             IF i \in DOMAIN payments
             THEN \/ payments'[i].status = payments[i].status
                  \/ /\ payments[i].status = "pending"
                     /\ payments'[i].status = "succeeded"
             ELSE payments'[i].status = "pending"]_vars

\* C29 witness: a confirm answered success for a payment that is succeeded,
\* next to a payment that is still pending, with every intent created.
C29_Witness ==
    /\ last.op = "confirm"
    /\ last.success
    /\ last.paymentId \in DOMAIN payments
    /\ payments[last.paymentId].status = "succeeded"
    /\ \E i \in DOMAIN payments : payments[i].status = "pending"
    /\ Len(intents) = MaxPayments

\* C30: after a create-intent that is answered with an error, every intent
\* at the processor has a payment row that names it.
C30_NoOrphanIntent ==
    [][(last'.op = "intent" /\ last'.code # 200)
       => \A i \in DOMAIN intents' :
              \E p \in DOMAIN payments' : payments'[p].stripePaymentIntentId = i]_vars

====
